---- MODULE Spec2Model ----
(***************************************************************************)
(* Model of the QR Shield scanner: the Scanner component's camera and      *)
(* frame loop (src/components/Scanner.tsx, second revision, lines          *)
(* 141-332), the App component's scan handling and history (src/App.tsx,   *)
(* lines 1-331) and the classification call analyzeURL                     *)
(* (src/services/geminiService.ts).                                        *)
(*                                                                         *)
(* Strings whose content matters (risk labels, URLs) are sequences of      *)
(* one-character strings, so that toLowerCase and trim are computed.       *)
(* Confidence values are in hundredths (50 stands for 0.5).                *)
(*                                                                         *)
(* React semantics assumed: a component's refs to DOM elements are null    *)
(* once it is unmounted; the effect cleanup still sees the video element;  *)
(* a state setter called on an unmounted component does nothing.           *)
(***************************************************************************)
EXTENDS Integers, Sequences, FiniteSets, TLC

\* ---------------------------------------------------------------- bounds
\* Number of Scanner mounts (scanning sessions) in one run.
MaxSessions == 1
\* Time that passes between two animation frames, in milliseconds.
FrameMs == 100

\* Manual submissions and file uploads in one run.
MaxSubmits == 2

\* ------------------------------------------------------------- constants
\* setTimeout delay of handleSuccess.
ConfirmDelayMs == 600
\* Sampling interval the specification gives for the scan loop.
ThrottleIntervalMs == 150
\* Time without a decode after which the specification has a hint shown.
HintTimeoutMs == 4000

\* Session numbers; the runs that reopen the scanner use one more than
\* MaxSessions of them.
Sessions == 1..(MaxSessions + 1)

\* Decoded payloads a frame may carry: a URL, the empty string.
Payloads == { << "a" >>, << >> }

Range(f) == { f[i] : i \in DOMAIN f }
Min(a, b) == IF a < b THEN a ELSE b
Max(a, b) == IF a > b THEN a ELSE b

VARIABLES
  mounted,       \* per session: "unborn", "mounted" or "unmounted"
  cam,           \* per session: the getUserMedia stream: "none", "pending", "live", "stopped", "denied"
  srcObject,     \* per session: video.srcObject holds the stream
  error,         \* per session: the error state of Scanner is set
  isDetected,    \* per session: the isDetected state
  hasTriggered,  \* per session: hasTriggered.current
  requestRef,    \* per session: requestRef.current, 0 for null
  rafQueue,      \* pending requestAnimationFrame callbacks: [sess, id, ready]
  detecting,     \* per session: tick invocations suspended on barcodeDetector.detect
  timers,        \* pending setTimeout callbacks of handleSuccess: [sess, data, left]
  hasDetector,   \* 'BarcodeDetector' in window
  elapsed,       \* per session: time it has been mounted and searching, saturating
  sinceLatch,    \* per session: time since its latch was set, saturating
  successData,   \* per session: the payload handleSuccess latched, NoCode before
  onScanCalls,   \* per session: payloads passed to onScan, in order
  sinceTick,     \* per session: time since the previous tick began, saturating
  tickLog,       \* what the step just taken did if it ran a tick, NoTick otherwise
  overlap,       \* per session: a decode began while another was unfinished
  decoded,       \* per session: a decode attempt has finished
  isScanning,    \* App: the isScanning state
  loading,       \* App: the loading state
  result,        \* App: the displayed ScanResult, NoResult for null
  history,       \* App: the history list, newest first
  appError,      \* App: the error state, "" for null
  manualUrl,     \* App: the manualUrl state
  analysing,     \* handleScan calls suspended on analyzeURL: [url]
  decoding,      \* the files of handleFileUpload calls suspended on decodeQRCodeFromImage
  storage,       \* localStorage item qr_shield_history, as JSON data
  submits,       \* manual submissions and uploads made so far
  safeReplied,   \* URLs of which the service has replied a case variant of Safe
  reply,         \* what the service did in the analyzeURL call that settled last
  analysis,      \* what that analyzeURL call settled with
  now,           \* Date.now(), in units of its own
  boot           \* App: how far its start has come, and the setHistory update it queued

scannerVars == << mounted, cam, srcObject, error, isDetected, hasTriggered, successData,
                  requestRef, rafQueue, detecting, timers, hasDetector, elapsed, sinceLatch,
                  onScanCalls, sinceTick, tickLog, overlap, decoded, successData >>

\* The Scanner's variables but tickLog, which every step writes.
scannerState == << mounted, cam, srcObject, error, isDetected, hasTriggered, successData,
                   requestRef, rafQueue, detecting, timers, hasDetector, elapsed, sinceLatch,
                   onScanCalls, sinceTick, overlap, decoded, successData >>

appVars == << isScanning, loading, result, history, appError, manualUrl,
             analysing, decoding, storage, submits, safeReplied, reply, analysis, now, boot >>

vars == << scannerVars, appVars >>

\* phase: "start" for the part of a tick before its await, "resume" for the
\* part after it; gap: at a start, the time since the session's previous tick;
\* code: what jsQR returned if the tick ran it; frame: the tick found the
\* video ready; barcodes: the raw values of the list the detector returned;
\* shown: the polarity of the code in the frame jsQR was run on.
NoTick == [sess |-> 0, phase |-> "none", gap |-> ThrottleIntervalMs, native |-> "none",
           sw |-> FALSE, resched |-> FALSE, live |-> FALSE, code |-> << "null" >>,
           frame |-> FALSE, barcodes |-> << >>, shown |-> "none"]

\* videoRef.current / canvasRef.current: the elements exist while the
\* component is mounted and renders the video branch (error is null).
videoRef(s) == mounted[s] = "mounted" /\ ~error[s]
canvasRef(s) == mounted[s] = "mounted" /\ ~error[s]

\* The id requestAnimationFrame returns: one that names no pending callback
\* and that no requestRef still holds.
FreshRafId ==
  CHOOSE i \in 1..(Cardinality(rafQueue) + Cardinality(Sessions) + 1) :
    /\ \A f \in rafQueue : f.id # i
    /\ \A s \in Sessions : requestRef[s] # i

\* requestRef.current = requestAnimationFrame(tick)
ScheduleTick(s, queue) ==
  /\ rafQueue' = queue \cup { [sess |-> s, id |-> FreshRafId, ready |-> FALSE] }
  /\ requestRef' = [requestRef EXCEPT ![s] = FreshRafId]

\* handleSuccess with a timeout of 0: the payload is delivered at once.
handleSuccessImmediate(s, data) ==
  IF hasTriggered[s]
  THEN UNCHANGED << hasTriggered, isDetected, timers, successData >>
  ELSE /\ hasTriggered' = [hasTriggered EXCEPT ![s] = TRUE]
       /\ successData' = [successData EXCEPT ![s] = data]
       /\ isDetected' = [isDetected EXCEPT ![s] = (mounted[s] = "mounted")]
       /\ timers' = Append(timers, [sess |-> s, data |-> data, left |-> 0])

\* handleSuccess(data): latch, mark detected, deliver after the delay.
handleSuccess(s, data) ==
  IF hasTriggered[s]
  THEN UNCHANGED << hasTriggered, isDetected, timers, successData >>
  ELSE /\ hasTriggered' = [hasTriggered EXCEPT ![s] = TRUE]
       /\ successData' = [successData EXCEPT ![s] = data]
       /\ isDetected' = [isDetected EXCEPT ![s] = (mounted[s] = "mounted")]
       /\ timers' = Append(timers, [sess |-> s, data |-> data, left |-> ConfirmDelayMs])


\* ------------------------------------------------------- classification
\* RiskLevel (types.ts): the three enumeration values.
RiskLevel == { "Safe", "Suspicious", "Phishing" }

\* A JSON property that is absent (reads as undefined); no string of
\* characters equals it.
Missing == << "undefined" >>
\* A JSON value that is not a string (a number, say).
NonString == << "number" >>
\* Values a lookup on a plain object inherits from Object.prototype.
ObjectFunction == "function Object"
ObjectPrototype == "Object.prototype"

UpperToLower ==
  [c \in { "A","B","C","D","E","F","G","H","I","J","K","L","M",
           "N","O","P","Q","R","S","T","U","V","W","X","Y","Z" } |->
     CASE c = "A" -> "a" [] c = "B" -> "b" [] c = "C" -> "c" [] c = "D" -> "d"
       [] c = "E" -> "e" [] c = "F" -> "f" [] c = "G" -> "g" [] c = "H" -> "h"
       [] c = "I" -> "i" [] c = "J" -> "j" [] c = "K" -> "k" [] c = "L" -> "l"
       [] c = "M" -> "m" [] c = "N" -> "n" [] c = "O" -> "o" [] c = "P" -> "p"
       [] c = "Q" -> "q" [] c = "R" -> "r" [] c = "S" -> "s" [] c = "T" -> "t"
       [] c = "U" -> "u" [] c = "V" -> "v" [] c = "W" -> "w" [] c = "X" -> "x"
       [] c = "Y" -> "y" [] c = "Z" -> "z"]

\* String.prototype.toLowerCase
toLowerCase(str) ==
  [i \in DOMAIN str |-> IF str[i] \in DOMAIN UpperToLower THEN UpperToLower[str[i]] ELSE str[i]]

\* String.prototype.trim, over strings whose only whitespace is the blank.
RECURSIVE trimStart(_)
trimStart(str) ==
  IF str # << >> /\ Head(str) = " " THEN trimStart(Tail(str)) ELSE str

RECURSIVE trimEnd(_)
trimEnd(str) ==
  IF str # << >> /\ str[Len(str)] = " " THEN trimEnd(SubSeq(str, 1, Len(str) - 1)) ELSE str

trim(str) == trimEnd(trimStart(str))

sSafe == << "s","a","f","e" >>
sSuspicious == << "s","u","s","p","i","c","i","o","u","s" >>
sPhishing == << "p","h","i","s","h","i","n","g" >>
sConstructor == << "c","o","n","s","t","r","u","c","t","o","r" >>
sProto == << "_","_","p","r","o","t","o","_","_" >>

\* riskMap[key]: the three own properties of the object literal, then the
\* properties a plain object inherits, undefined otherwise.
riskMap(key) ==
  CASE key = sSafe -> "Safe"
    [] key = sSuspicious -> "Suspicious"
    [] key = sPhishing -> "Phishing"
    [] key = sConstructor -> ObjectFunction
    [] key = sProto -> ObjectPrototype
    [] OTHER -> "undefined"

\* A catch block that reports a failed analysis as Safe.
FallbackSafe == [risk |-> "Safe", confidence |-> 50,
                 reasons |-> << "analysis failed" >>, url |-> Missing]

\* The value analyzeURL returns from its catch block.
Fallback == [risk |-> "Suspicious", confidence |-> 50,
             reasons |-> << "analysis failed" >>, url |-> Missing]

\* A reply of the service: the call fails, or it answers with a text that
\* is absent, is not JSON, is JSON that is no object (null), or is an object.
NoData == [risk |-> Missing, confidence |-> 0, reasons |-> << >>, url |-> Missing]

\* analyzeURL with the label looked up as it is spelled, under the names of
\* the enumeration values.
analyzeURLExactCase(url, r) ==
  IF r.call = "fail" THEN [rejected |-> TRUE, value |-> Fallback]
  ELSE IF r.text # "object" THEN [rejected |-> FALSE, value |-> Fallback]
  ELSE IF r.data.risk \in { Missing, NonString } THEN [rejected |-> FALSE, value |-> Fallback]
  ELSE LET normalizedRisk ==
             CASE r.data.risk = << "S","a","f","e" >> -> "Safe"
               [] r.data.risk = << "P","h","i","s","h","i","n","g" >> -> "Phishing"
               [] OTHER -> "Suspicious"
       IN  [rejected |-> FALSE,
            value |-> [r.data EXCEPT !.risk = normalizedRisk]]

\* analyzeURL(url), given what generateContent does: [rejected] when the
\* awaited call fails (it is made outside the try block), the fallback when
\* anything in the try block throws, the normalized reply otherwise.
analyzeURL(url, r) ==
  IF r.call = "fail" THEN [rejected |-> TRUE, value |-> Fallback]
  ELSE IF r.text # "object" THEN [rejected |-> FALSE, value |-> Fallback]
  ELSE IF r.data.risk \in { Missing, NonString } THEN [rejected |-> FALSE, value |-> Fallback]
  ELSE LET looked == riskMap(toLowerCase(r.data.risk))
           normalizedRisk == IF looked = "undefined" THEN "Suspicious" ELSE looked
       IN  [rejected |-> FALSE,
            value |-> [r.data EXCEPT !.risk = normalizedRisk]]

\* ------------------------------------------------------------------ App
NoResult == [url |-> Missing, risk |-> "null", confidence |-> 0, reasons |-> << >>,
             timestamp |-> 0]

\* A result built with the confidence of the fallback in place of the
\* confidence of the analysis.
newResultFixedConfidence(formattedUrl, a, time) ==
  [url |-> IF a.url = Missing THEN formattedUrl ELSE a.url,
   risk |-> a.risk,
   confidence |-> 50,
   reasons |-> a.reasons,
   timestamp |-> time]

\* { url: formattedUrl, ...analysis, timestamp: Date.now() }: a url property
\* of the analysis replaces the formatted URL.
newResult(formattedUrl, a, time) ==
  [url |-> IF a.url = Missing THEN formattedUrl ELSE a.url,
   risk |-> a.risk,
   confidence |-> a.confidence,
   reasons |-> a.reasons,
   timestamp |-> time]

\* history.slice(0, 10)
HistoryCap == 10
\* A slice that keeps the last n entries, list.slice(-n).
sliceLast(list, n) == SubSeq(list, Max(1, Len(list) - n + 1), Len(list))
slice(list, n) == SubSeq(list, 1, Min(Len(list), n))

\* What JSON.stringify keeps of one value: a function is dropped like
\* undefined, an object without own enumerable properties becomes {}.
EmptyObject == "{}"
jsonValue(v) ==
  CASE v = ObjectFunction -> "undefined"
    [] v = ObjectPrototype -> EmptyObject
    [] OTHER -> v

\* JSON.stringify of a list of results, as the data JSON.parse gives back.
stringify(list) ==
  [i \in DOMAIN list |->
     [url |-> list[i].url, risk |-> jsonValue(list[i].risk),
      confidence |-> list[i].confidence, reasons |-> list[i].reasons,
      timestamp |-> list[i].timestamp]]

\* The load effect: the saved item, parsed, becomes the history; no item
\* leaves the history empty.
\* The localStorage item: absent, or the stored JSON.
NoItem == [present |-> FALSE, list |-> << >>]
Item(list) == [present |-> TRUE, list |-> list]

\* The persist effect: localStorage.setItem(key, JSON.stringify(history.slice(0, 10)))
persist(list) == Item(stringify(slice(list, HistoryCap)))
loadHistory(saved) == IF saved.present THEN saved.list ELSE << >>

\* Replies the service gives in a run: a failed call, an undecodable text,
\* objects with labels in several spellings, a label that names an inherited
\* property, an object that carries a url property of its own, and objects
\* whose confidence lies above 1 and below 0.
Reasons == << "r" >>
NoReply == [call |-> "none", text |-> "absent", data |-> NoData]
ReplyFail == [call |-> "fail", text |-> "absent", data |-> NoData]
ReplyNoText == [call |-> "ok", text |-> "absent", data |-> NoData]
ReplyBadJson == [call |-> "ok", text |-> "invalid", data |-> NoData]
ReplyNull == [call |-> "ok", text |-> "null", data |-> NoData]
ReplyObject(label, conf, u) ==
  [call |-> "ok", text |-> "object",
   data |-> [risk |-> label, confidence |-> conf, reasons |-> Reasons, url |-> u]]

Replies ==
  { ReplyFail, ReplyBadJson,
    ReplyObject(<< "S","a","f","e" >>, 92, Missing),
    ReplyObject(<< "P","H","I","S","H","I","N","G" >>, 92, Missing),
    ReplyObject(sConstructor, 92, Missing),
    ReplyObject(sSafe, 92, << "b" >>),
    ReplyObject(sSuspicious, 150, Missing),
    ReplyObject(sSuspicious, -20, Missing) }

\* The spellings of a word in upper and lower case letters.
LowerToUpper ==
  [c \in { UpperToLower[u] : u \in DOMAIN UpperToLower } |->
     CHOOSE u \in DOMAIN UpperToLower : UpperToLower[u] = c]
CaseVariants(word) ==
  { [i \in DOMAIN word |-> IF up[i] THEN LowerToUpper[word[i]] ELSE word[i]] :
      up \in [DOMAIN word -> BOOLEAN] }

\* Risk labels a reply may carry: every spelling of the three names, labels
\* that name nothing, labels that name inherited properties, no label, a
\* label that is no string.
Labels ==
  CaseVariants(sSafe) \cup CaseVariants(sSuspicious) \cup CaseVariants(sPhishing) \cup
  { << >>, << "o","d","d" >>, << "s","a","f","e"," " >>, sConstructor, sProto,
    << "t","o","S","t","r","i","n","g" >>, Missing, NonString }

\* An object that has a risk and a confidence but no reasons property.
ReplyNoReasons ==
  [call |-> "ok", text |-> "object",
   data |-> [risk |-> << "S","a","f","e" >>, confidence |-> 92, reasons |-> Missing,
             url |-> Missing]]

ClassifyReplies ==
  { ReplyFail, ReplyNoText, ReplyBadJson, ReplyNull, ReplyNoReasons } \cup
  { ReplyObject(label, 92, Missing) : label \in Labels }

\* Items a previous run may have left in localStorage: none, an empty list,
\* one result, as many results as the persist effect keeps.
SavedItems ==
  { NoItem, Item(<< >>),
    Item(<< [url |-> << "a" >>, risk |-> "Safe", confidence |-> 92, reasons |-> Reasons,
             timestamp |-> 0] >>),
    Item([i \in 1..HistoryCap |->
            [url |-> << "a" >>, risk |-> "Safe", confidence |-> 92, reasons |-> Reasons,
             timestamp |-> 0]]) }

\* The URL a reply speaks of: the URL it names itself, if it names one,
\* the URL of the request otherwise.
RepliedFor(url, r) == IF r.data.url = Missing THEN url ELSE r.data.url

IsSafeReply(r) ==
  /\ r.call = "ok" /\ r.text = "object"
  /\ r.data.risk \notin { Missing, NonString }
  /\ toLowerCase(r.data.risk) = sSafe

\* No analyzeURL call has settled yet.
NoAnalysis == [rejected |-> FALSE,
               value |-> [risk |-> "none", confidence |-> 0, reasons |-> << >>, url |-> Missing]]

InitFields ==
  /\ mounted = [s \in Sessions |-> "unborn"]
  /\ cam = [s \in Sessions |-> "none"]
  /\ srcObject = [s \in Sessions |-> FALSE]
  /\ error = [s \in Sessions |-> FALSE]
  /\ isDetected = [s \in Sessions |-> FALSE]
  /\ hasTriggered = [s \in Sessions |-> FALSE]
  /\ requestRef = [s \in Sessions |-> 0]
  /\ rafQueue = {}
  /\ detecting = [s \in Sessions |-> 0]
  /\ timers = << >>
  /\ hasDetector \in BOOLEAN
  /\ elapsed = [s \in Sessions |-> 0]
  /\ sinceLatch = [s \in Sessions |-> 0]
  /\ successData = [s \in Sessions |-> << "null" >>]
  /\ onScanCalls = [s \in Sessions |-> << >>]
  /\ sinceTick = [s \in Sessions |-> ThrottleIntervalMs]
  /\ tickLog = NoTick
  /\ overlap = [s \in Sessions |-> FALSE]
  /\ decoded = [s \in Sessions |-> FALSE]
  /\ isScanning = FALSE
  /\ loading = FALSE
  /\ result = NoResult
  /\ appError = ""
  /\ manualUrl = << >>
  /\ analysing = << >>
  /\ decoding = << >>
  /\ submits = 0
  /\ analysis = NoAnalysis
  /\ now = 1

\* The App after its start: the history loaded and persisted again, no update
\* queued.
Rendered == [phase |-> "done", queued |-> << >>]
Started == boot.phase = "done"

SafeUrls(list) == { r.url : r \in { q \in Range(list) : q.risk = "Safe" } }

InitState ==
  /\ InitFields
  /\ boot = Rendered
  /\ \E saved \in SavedItems :
       /\ history = loadHistory(saved)
       /\ storage = persist(loadHistory(saved))
       /\ safeReplied = SafeUrls(loadHistory(saved))

Init == InitState /\ reply = NoReply

\* --------------------------------------------------------------- Scanner
\* What a video frame shows: no code, or a code in normal or inverted polarity.
NoCode == << "null" >>
Frames ==
  { [polarity |-> "none", data |-> << >>] } \cup
  { [polarity |-> p, data |-> d] : p \in { "normal", "inverted" }, d \in Payloads }

\* jsQR(data, width, height, { inversionAttempts }): code.data, or null.
jsQR(frame, inversionAttempts) ==
  IF \/ frame.polarity = "normal"
     \/ frame.polarity = "inverted" /\ inversionAttempts # "dontInvert"
  THEN frame.data
  ELSE NoCode

\* What barcodeDetector.detect(video) settles with: an exception, or a list.
Detections == { "throw" } \cup { "empty" } \cup { "found" }
\* The raw values of the barcodes of a list the detector returns.
BarcodeLists ==
  { << >> } \cup { << a >> : a \in Payloads } \cup { << a, b >> : a, b \in Payloads }

\* The effect cleanup of the mounted Scanner, run when App stops rendering it:
\* cancel the frame requestRef names, stop the tracks of video.srcObject.
cleanup(queue) ==
  /\ mounted' = [s \in Sessions |-> IF mounted[s] = "mounted" THEN "unmounted" ELSE mounted[s]]
  /\ cam' = [s \in Sessions |->
               IF mounted[s] = "mounted" /\ videoRef(s) /\ srcObject[s]
               THEN "stopped" ELSE cam[s]]
  /\ rafQueue' = { f \in queue :
                     ~ \E s \in Sessions : mounted[s] = "mounted" /\ requestRef[s] = f.id }

\* A jsQR part that requests the next frame after a success as well.
softwareDecodeRescheduling(s, queue, frame, log) ==
  LET code == IF canvasRef(s) THEN jsQR(frame, "dontInvert") ELSE NoCode
      hit == code # NoCode /\ code # << >> /\ ~hasTriggered[s]
  IN  IF hit
      THEN /\ handleSuccess(s, code)
           /\ ScheduleTick(s, queue)
           /\ tickLog' = [log EXCEPT !.sw = TRUE, !.code = code, !.shown = frame.polarity]
      ELSE /\ ScheduleTick(s, queue)
           /\ UNCHANGED << hasTriggered, successData, isDetected, timers >>
           /\ tickLog' = [log EXCEPT !.sw = canvasRef(s), !.resched = TRUE, !.code = code,
                                    !.shown = IF canvasRef(s) THEN frame.polarity ELSE "none"]

\* The jsQR part of tick and what follows it (lines 207-229).
softwareDecode(s, queue, frame, log) ==
  LET code == IF canvasRef(s) THEN jsQR(frame, "dontInvert") ELSE NoCode
      hit == code # NoCode /\ code # << >> /\ ~hasTriggered[s]
  IN  IF hit
      THEN /\ handleSuccess(s, code)
           /\ rafQueue' = queue
           /\ UNCHANGED requestRef
           /\ tickLog' = [log EXCEPT !.sw = TRUE, !.code = code, !.shown = frame.polarity]
      ELSE /\ ScheduleTick(s, queue)
           /\ UNCHANGED << hasTriggered, successData, isDetected, timers >>
           /\ tickLog' = [log EXCEPT !.sw = canvasRef(s), !.resched = TRUE, !.code = code,
                                    !.shown = IF canvasRef(s) THEN frame.polarity ELSE "none"]

\* A tick that requests the next frame before it awaits the detector.
beginDetectEager(s, queue, log) ==
  /\ detecting' = [detecting EXCEPT ![s] = @ + 1]
  /\ ScheduleTick(s, queue)
  /\ tickLog' = [log EXCEPT !.native = "pending"]
  /\ UNCHANGED << hasTriggered, successData, isDetected, timers >>

\* The native part of tick up to its await (lines 194-197): the detector is
\* called on the frame and the tick is suspended; nothing is scheduled.
beginDetect(s, queue, log) ==
  /\ detecting' = [detecting EXCEPT ![s] = @ + 1]
  /\ rafQueue' = queue
  /\ tickLog' = [log EXCEPT !.native = "pending"]
  /\ UNCHANGED << requestRef, hasTriggered, successData, isDetected, timers >>

\* tick, from its start to its first await or its end.
tick(f, ready, frame) ==
  LET s == f.sess
      queue == rafQueue \ { f }
      log == [NoTick EXCEPT !.sess = s, !.phase = "start", !.gap = sinceTick[s],
                            !.live = (mounted[s] = "mounted")]
  IN  /\ f \in rafQueue
      /\ f.ready
      /\ sinceTick' = [sinceTick EXCEPT ![s] = 0]
      /\ IF hasTriggered[s]
         THEN /\ rafQueue' = queue
              /\ tickLog' = log
              /\ UNCHANGED << requestRef, hasTriggered, successData, isDetected, timers, detecting,
                              overlap, decoded >>
         ELSE IF videoRef(s) /\ srcObject[s] /\ ready
         THEN IF hasDetector
              THEN /\ beginDetect(s, queue, [log EXCEPT !.frame = TRUE])
                   /\ overlap' = [overlap EXCEPT ![s] = @ \/ detecting[s] > 0]
                   /\ UNCHANGED decoded
              ELSE /\ softwareDecode(s, queue, frame, [log EXCEPT !.frame = TRUE])
                   /\ overlap' = [overlap EXCEPT ![s] = @ \/ detecting[s] > 0]
                   /\ decoded' = [decoded EXCEPT ![s] = TRUE]
                   /\ UNCHANGED detecting
         ELSE /\ ScheduleTick(s, queue)
              /\ tickLog' = [log EXCEPT !.resched = TRUE]
              /\ UNCHANGED << hasTriggered, successData, isDetected, timers, detecting, overlap, decoded >>
      /\ UNCHANGED << mounted, cam, srcObject, error, hasDetector, elapsed, sinceLatch, onScanCalls >>
      /\ UNCHANGED appVars

\* A tick that hands the last of the detector's results to handleSuccess.
tickResumeLast(s, detection, barcodes, frame) ==
  LET log == [NoTick EXCEPT !.sess = s, !.phase = "resume", !.native = detection,
                            !.live = (mounted[s] = "mounted"), !.frame = TRUE,
                            !.barcodes = barcodes]
  IN  /\ detecting[s] > 0
      /\ (detection = "found") = (barcodes # << >>)
      /\ detecting' = [detecting EXCEPT ![s] = @ - 1]
      /\ decoded' = [decoded EXCEPT ![s] = TRUE]
      /\ IF detection = "found" /\ ~hasTriggered[s]
         THEN /\ handleSuccess(s, barcodes[Len(barcodes)])
              /\ tickLog' = log
              /\ UNCHANGED << rafQueue, requestRef, overlap >>
         ELSE /\ softwareDecode(s, rafQueue, frame, log)
              /\ overlap' = [overlap EXCEPT ![s] = @ \/ detecting[s] > 1]
      /\ UNCHANGED << mounted, cam, srcObject, error, hasDetector, elapsed, sinceLatch, onScanCalls, sinceTick >>
      /\ UNCHANGED appVars

\* A tick whose detector exception is not caught: the tick ends there.
tickResumeUncaught(s, detection, barcodes, frame) ==
  LET log == [NoTick EXCEPT !.sess = s, !.phase = "resume", !.native = detection,
                            !.live = (mounted[s] = "mounted"), !.frame = TRUE,
                            !.barcodes = barcodes]
  IN  /\ detecting[s] > 0
      /\ (detection = "found") = (barcodes # << >>)
      /\ detecting' = [detecting EXCEPT ![s] = @ - 1]
      /\ decoded' = [decoded EXCEPT ![s] = TRUE]
      /\ IF detection = "found" /\ ~hasTriggered[s]
         THEN /\ handleSuccess(s, barcodes[1])
              /\ tickLog' = log
              /\ UNCHANGED << rafQueue, requestRef, overlap >>
         ELSE IF detection = "throw"
         THEN /\ tickLog' = log
              /\ UNCHANGED << rafQueue, requestRef, overlap, hasTriggered, successData, isDetected, timers >>
         ELSE /\ softwareDecode(s, rafQueue, frame, log)
              /\ overlap' = [overlap EXCEPT ![s] = @ \/ detecting[s] > 1]
      /\ UNCHANGED << mounted, cam, srcObject, error, hasDetector, elapsed, sinceLatch, onScanCalls, sinceTick >>
      /\ UNCHANGED appVars

\* tick, from the settling of barcodeDetector.detect to its end: a thrown
\* exception is caught and, like an empty list, leads on to jsQR.
tickResume(s, detection, barcodes, frame) ==
  LET log == [NoTick EXCEPT !.sess = s, !.phase = "resume", !.native = detection,
                            !.live = (mounted[s] = "mounted"), !.frame = TRUE,
                            !.barcodes = barcodes]
  IN  /\ detecting[s] > 0
      /\ (detection = "found") = (barcodes # << >>)
      /\ detecting' = [detecting EXCEPT ![s] = @ - 1]
      /\ decoded' = [decoded EXCEPT ![s] = TRUE]
      /\ IF detection = "found" /\ ~hasTriggered[s]
         THEN /\ handleSuccess(s, barcodes[1])
              /\ tickLog' = log
              /\ UNCHANGED << rafQueue, requestRef, overlap >>
         ELSE /\ softwareDecode(s, rafQueue, frame, log)
              /\ overlap' = [overlap EXCEPT ![s] = @ \/ detecting[s] > 1]
      /\ UNCHANGED << mounted, cam, srcObject, error, hasDetector, elapsed, sinceLatch, onScanCalls, sinceTick >>
      /\ UNCHANGED appVars

\* startCamera that starts the frame loop whether or not the camera was granted.
startCameraResumeAlways(s, granted) ==
  /\ cam[s] = "pending"
  /\ IF granted
     THEN /\ IF videoRef(s)
             THEN /\ cam' = [cam EXCEPT ![s] = "live"]
                  /\ srcObject' = [srcObject EXCEPT ![s] = TRUE]
                  /\ ScheduleTick(s, rafQueue)
             ELSE /\ cam' = [cam EXCEPT ![s] = "live"]
                  /\ UNCHANGED << srcObject, rafQueue, requestRef >>
          /\ UNCHANGED error
     ELSE /\ cam' = [cam EXCEPT ![s] = "denied"]
          /\ error' = [error EXCEPT ![s] = @ \/ mounted[s] = "mounted"]
          /\ ScheduleTick(s, rafQueue)
          /\ UNCHANGED srcObject
  /\ tickLog' = NoTick
  /\ UNCHANGED << mounted, isDetected, hasTriggered, successData, detecting, timers, hasDetector, elapsed, sinceLatch,
                  onScanCalls, sinceTick, overlap, decoded >>
  /\ UNCHANGED appVars

\* startCamera, from the settling of getUserMedia to its end.
startCameraResume(s, granted) ==
  /\ cam[s] = "pending"
  /\ IF granted
     THEN /\ IF videoRef(s)
             THEN /\ cam' = [cam EXCEPT ![s] = "live"]
                  /\ srcObject' = [srcObject EXCEPT ![s] = TRUE]
                  /\ ScheduleTick(s, rafQueue)
             ELSE /\ cam' = [cam EXCEPT ![s] = "live"]
                  /\ UNCHANGED << srcObject, rafQueue, requestRef >>
          /\ UNCHANGED error
     ELSE /\ cam' = [cam EXCEPT ![s] = "denied"]
          /\ error' = [error EXCEPT ![s] = @ \/ mounted[s] = "mounted"]
          /\ UNCHANGED << srcObject, rafQueue, requestRef >>
  /\ tickLog' = NoTick
  /\ UNCHANGED << mounted, isDetected, hasTriggered, successData, detecting, timers, hasDetector, elapsed, sinceLatch,
                  onScanCalls, sinceTick, overlap, decoded >>
  /\ UNCHANGED appVars

\* A session can still run a tick: its camera is being acquired, a frame of
\* it is pending, or a tick of it is suspended.
LoopAlive(s) ==
  \/ cam[s] = "pending"
  \/ detecting[s] > 0
  \/ \E f \in rafQueue : f.sess = s

\* A session is mounted, shows the video and has not decoded a code yet.
Searching(s) == mounted[s] = "mounted" /\ ~error[s] /\ ~hasTriggered[s]

\* The status line the Scanner renders under the viewfinder, or the text of
\* its error panel.
statusMessage(s) ==
  IF error[s] THEN "Camera access denied or unavailable. Please check permissions."
  ELSE IF isDetected[s] THEN "QR Code Extracted!"
  ELSE "Align QR code within the box"

\* One animation frame of time passes; watched: an observer's stopwatch
\* measures how long each session has been searching.
Pass(watched) ==
  /\ rafQueue' = { [f EXCEPT !.ready = TRUE] : f \in rafQueue }
  /\ timers' = [i \in DOMAIN timers |-> [timers[i] EXCEPT !.left = Max(0, @ - FrameMs)]]
  /\ sinceTick' = [s \in Sessions |->
                      IF LoopAlive(s) THEN Min(ThrottleIntervalMs, sinceTick[s] + FrameMs)
                      ELSE ThrottleIntervalMs]
  /\ elapsed' = [s \in Sessions |->
                    IF watched /\ Searching(s)
                    THEN Min(HintTimeoutMs, elapsed[s] + FrameMs) ELSE 0]
  /\ sinceLatch' = [s \in Sessions |->
                       IF hasTriggered[s] THEN Min(ConfirmDelayMs, sinceLatch[s] + FrameMs) ELSE 0]
  /\ tickLog' = NoTick
  /\ UNCHANGED << mounted, cam, srcObject, error, isDetected, hasTriggered, successData, requestRef,
                  detecting, hasDetector, onScanCalls, overlap, decoded >>
  /\ UNCHANGED appVars

Advance == Pass(FALSE)
AdvanceWatched == Pass(TRUE)

\* ------------------------------------------------------------ App actions
\* handleScan, from its start to the await of analyzeURL; the Scanner is
\* unmounted by the render that follows setIsScanning(false).
handleScan(url, queue) ==
  /\ isScanning' = FALSE
  /\ cleanup(queue)
  /\ loading' = TRUE
  /\ appError' = ""
  /\ analysing' = Append(analysing, trim(url))

\* handleScan, from the settling of analyzeURL to its end; the persist
\* effect runs after the history changed.
handleScanResume(i, r) ==
  LET url == analysing[i]
      settled == analyzeURL(url, r)
      made == newResult(url, settled.value, now)
  IN  /\ i \in DOMAIN analysing
      /\ reply' = r
      /\ analysis' = settled
      /\ now' = now + 1
      /\ UNCHANGED boot
      /\ analysing' = [j \in 1..(Len(analysing) - 1) |-> IF j < i THEN analysing[j] ELSE analysing[j + 1]]
      /\ IF settled.rejected
         THEN /\ appError' = "analysis"
              /\ UNCHANGED << result, history, storage >>
         ELSE /\ result' = made
              /\ history' = << made >> \o history
              /\ storage' = persist(<< made >> \o history)
              /\ UNCHANGED appError
      /\ loading' = FALSE
      /\ safeReplied' = IF IsSafeReply(r) THEN safeReplied \cup { RepliedFor(url, r) }
                        ELSE safeReplied
      /\ UNCHANGED << isScanning, manualUrl, decoding, submits >>
      /\ tickLog' = NoTick
      /\ UNCHANGED scannerState

\* A callback set with setInterval: it stays scheduled after it ran.
timerFireRepeating(i) ==
  /\ i \in DOMAIN timers
  /\ timers[i].left = 0
  /\ timers' = timers
  /\ onScanCalls' = [onScanCalls EXCEPT ![timers[i].sess] = Append(@, timers[i].data)]
  /\ handleScan(timers[i].data, rafQueue)
  /\ tickLog' = NoTick
  /\ UNCHANGED << srcObject, error, isDetected, hasTriggered, successData, requestRef, detecting,
                  hasDetector, elapsed, sinceLatch, sinceTick, overlap, decoded >>
  /\ UNCHANGED << result, history, manualUrl, decoding, storage, submits, safeReplied,
                  reply, analysis, now, boot >>

\* The setTimeout callback of handleSuccess: onScan(data), which is handleScan.
timerFire(i) ==
  /\ i \in DOMAIN timers
  /\ timers[i].left = 0
  /\ timers' = [j \in 1..(Len(timers) - 1) |-> IF j < i THEN timers[j] ELSE timers[j + 1]]
  /\ onScanCalls' = [onScanCalls EXCEPT ![timers[i].sess] = Append(@, timers[i].data)]
  /\ handleScan(timers[i].data, rafQueue)
  /\ tickLog' = NoTick
  /\ UNCHANGED << srcObject, error, isDetected, hasTriggered, successData, requestRef, detecting,
                  hasDetector, elapsed, sinceLatch, sinceTick, overlap, decoded >>
  /\ UNCHANGED << result, history, manualUrl, decoding, storage, submits, safeReplied, reply, analysis, now, boot >>

\* onClick of the scan button: setIsScanning(true); Scanner mounts and its
\* effect runs startCamera up to the await of getUserMedia.  limit: the
\* number of sessions the run may open.
openScanner(limit) ==
  /\ Started
  /\ ~isScanning
  /\ result = NoResult
  /\ \E s \in 1..limit :
       /\ mounted[s] = "unborn"
       /\ \A t \in Sessions : t < s => mounted[t] # "unborn"
       /\ mounted' = [mounted EXCEPT ![s] = "mounted"]
       /\ cam' = [cam EXCEPT ![s] = "pending"]
  /\ isScanning' = TRUE
  /\ tickLog' = NoTick
  /\ UNCHANGED << srcObject, error, isDetected, hasTriggered, successData, requestRef, rafQueue,
                  detecting, timers, hasDetector, elapsed, sinceLatch, onScanCalls, sinceTick, overlap, decoded >>
  /\ UNCHANGED << loading, result, history, appError, manualUrl, analysing, decoding,
                  storage, submits, safeReplied, reply, analysis, now, boot >>

\* onClose of Scanner: setIsScanning(false); Scanner unmounts.
onClose ==
  /\ isScanning
  /\ isScanning' = FALSE
  /\ cleanup(rafQueue)
  /\ tickLog' = NoTick
  /\ UNCHANGED << srcObject, error, isDetected, hasTriggered, successData, requestRef,
                  detecting, timers, hasDetector, elapsed, sinceLatch, onScanCalls, sinceTick, overlap, decoded >>
  /\ UNCHANGED << loading, result, history, appError, manualUrl, analysing, decoding,
                  storage, submits, safeReplied, reply, analysis, now, boot >>

\* onChange of the manual input.
ManualTexts == { << "a" >>, << " " >> }
setManualUrl(text) ==
  /\ Started
  /\ result = NoResult
  /\ submits < MaxSubmits
  /\ manualUrl # text
  /\ manualUrl' = text
  /\ UNCHANGED << isScanning, loading, result, history, appError, analysing, decoding,
                  storage, submits, safeReplied, reply, analysis, now, boot >>
  /\ tickLog' = NoTick
  /\ UNCHANGED scannerState

handleManualSubmit ==
  /\ Started
  /\ result = NoResult
  /\ submits < MaxSubmits
  /\ manualUrl # << >>
  /\ submits' = submits + 1
  /\ handleScan(manualUrl, rafQueue)
  /\ tickLog' = NoTick
  /\ UNCHANGED << srcObject, error, isDetected, hasTriggered, successData, requestRef, detecting,
                  timers, hasDetector, elapsed, sinceLatch, onScanCalls, sinceTick, overlap, decoded >>
  /\ UNCHANGED << result, history, manualUrl, decoding, storage, safeReplied, reply, analysis, now, boot >>

\* A file that cannot be read or is no image: FileReader or Image fires its
\* error event.
Undecodable == [polarity |-> "undecodable", data |-> << >>]
\* The files a user may pick: images showing what a frame may show, and a
\* file that is no decodable image.
Files == Frames \cup { Undecodable }

\* handleFileUpload, from its start to the await of decodeQRCodeFromImage.
handleFileUpload(file) ==
  /\ Started
  /\ result = NoResult
  /\ submits < MaxSubmits
  /\ submits' = submits + 1
  /\ loading' = TRUE
  /\ appError' = ""
  /\ decoding' = Append(decoding, file)
  /\ UNCHANGED << isScanning, result, history, manualUrl, analysing, storage, safeReplied,
                  reply, analysis, now, boot >>
  /\ tickLog' = NoTick
  /\ UNCHANGED scannerState

\* decodeQRCodeFromImage(file), for a file whose image loads: jsQR without
\* options tries both polarities.
decodeQRCodeFromImage(frame) == jsQR(frame, "attemptBoth")

\* decodeQRCodeFromImage(file) settles: its promise is resolved in img.onload
\* only; the error events of the reader and of the image have no handler.
Resolves(file) == file # Undecodable

\* A list without its i-th element.
Remove(list, i) ==
  [j \in 1..(Len(list) - 1) |-> IF j < i THEN list[j] ELSE list[j + 1]]

\* handleFileUpload that takes its catch branch when the image shows no code.
handleFileUploadResumeFailing(i) ==
  LET url == decodeQRCodeFromImage(decoding[i])
  IN  /\ i \in DOMAIN decoding
      /\ Resolves(decoding[i])
      /\ decoding' = Remove(decoding, i)
      /\ IF url # NoCode /\ url # << >>
         THEN /\ handleScan(url, rafQueue)
              /\ tickLog' = NoTick
              /\ UNCHANGED << srcObject, error, isDetected, hasTriggered, successData, requestRef,
                              detecting, timers, hasDetector, elapsed, sinceLatch, onScanCalls, sinceTick,
                              overlap, decoded >>
         ELSE /\ appError' = "file failed"
              /\ loading' = FALSE
              /\ UNCHANGED << isScanning, analysing >>
              /\ tickLog' = NoTick
              /\ UNCHANGED scannerState
      /\ UNCHANGED << result, history, manualUrl, storage, submits, safeReplied, reply, analysis, now, boot >>

\* handleFileUpload, from the settling of decodeQRCodeFromImage on.
handleFileUploadResume(i) ==
  LET url == decodeQRCodeFromImage(decoding[i])
  IN  /\ i \in DOMAIN decoding
      /\ Resolves(decoding[i])
      /\ decoding' = Remove(decoding, i)
      /\ IF url # NoCode /\ url # << >>
         THEN /\ handleScan(url, rafQueue)
              /\ tickLog' = NoTick
              /\ UNCHANGED << srcObject, error, isDetected, hasTriggered, successData, requestRef,
                              detecting, timers, hasDetector, elapsed, sinceLatch, onScanCalls, sinceTick,
                              overlap, decoded >>
         ELSE /\ appError' = "no pattern"
              /\ loading' = FALSE
              /\ UNCHANGED << isScanning, analysing >>
              /\ tickLog' = NoTick
              /\ UNCHANGED scannerState
      /\ UNCHANGED << result, history, manualUrl, storage, submits, safeReplied, reply, analysis, now, boot >>

\* onReset of ResultCard: setResult(null).
onReset ==
  /\ result # NoResult
  /\ result' = NoResult
  /\ UNCHANGED << isScanning, loading, history, appError, manualUrl, analysing, decoding,
                  storage, submits, safeReplied, reply, analysis, now, boot >>
  /\ tickLog' = NoTick
  /\ UNCHANGED scannerState

\* onClick of a history row: setResult(h).
showHistory(i) ==
  /\ result = NoResult
  /\ i \in DOMAIN history
  /\ result' = history[i]
  /\ UNCHANGED << isScanning, loading, history, appError, manualUrl, analysing, decoding,
                  storage, submits, safeReplied, reply, analysis, now, boot >>
  /\ tickLog' = NoTick
  /\ UNCHANGED scannerState

\* onClick of the clear button: setHistory([]); the persist effect follows.
clearHistory ==
  /\ result = NoResult
  /\ history # << >>
  /\ history' = << >>
  /\ storage' = persist(<< >>)
  /\ UNCHANGED << isScanning, loading, result, appError, manualUrl, analysing, decoding,
                  submits, safeReplied, reply, analysis, now, boot >>
  /\ tickLog' = NoTick
  /\ UNCHANGED scannerState

\* The effects of the App's first commit, in their order: the load effect
\* reads the saved item and queues setHistory(JSON.parse(saved)); the persist
\* effect stores the history of that render, which is empty.
mountEffects ==
  /\ boot.phase = "render"
  /\ boot' = [phase |-> "effects", queued |-> loadHistory(storage)]
  /\ storage' = persist(history)
  /\ UNCHANGED << isScanning, loading, result, history, appError, manualUrl, analysing,
                  decoding, submits, safeReplied, reply, analysis, now >>
  /\ tickLog' = NoTick
  /\ UNCHANGED scannerState

\* The render the queued setHistory causes, and the persist effect after it.
rerender ==
  /\ boot.phase = "effects"
  /\ boot' = Rendered
  /\ history' = boot.queued
  /\ storage' = persist(boot.queued)
  /\ safeReplied' = SafeUrls(boot.queued)
  /\ UNCHANGED << isScanning, loading, result, appError, manualUrl, analysing,
                  decoding, submits, reply, analysis, now >>
  /\ tickLog' = NoTick
  /\ UNCHANGED scannerState

\* The steps of the Scanner and of the App that opens and closes it.
ScannerSteps ==
  \/ \E f \in rafQueue, ready \in BOOLEAN, frame \in Frames : tick(f, ready, frame)
  \/ \E s \in Sessions, d \in Detections, barcodes \in BarcodeLists, frame \in Frames :
       tickResume(s, d, barcodes, frame)
  \/ \E s \in Sessions, granted \in BOOLEAN : startCameraResume(s, granted)
  \/ \E i \in DOMAIN timers : timerFire(i)
  \/ onClose

NextScanner == ScannerSteps \/ Advance \/ openScanner(MaxSessions)

\* The Scanner with the searching time of its sessions measured.
NextWatched == ScannerSteps \/ AdvanceWatched \/ openScanner(MaxSessions)

\* The Scanner opened once more.
NextReopen == ScannerSteps \/ Advance \/ openScanner(MaxSessions + 1)

NextApp ==
  \/ \E text \in ManualTexts : setManualUrl(text)
  \/ handleManualSubmit
  \/ \E file \in Files : handleFileUpload(file)
  \/ \E i \in DOMAIN decoding : handleFileUploadResume(i)
  \/ \E i \in DOMAIN analysing, r \in Replies : handleScanResume(i, r)
  \/ onReset
  \/ \E i \in DOMAIN history : showHistory(i)
  \/ clearHistory

\* One call of analyzeURL on its own: the service does what reply says, the
\* call settles.
classify(url) ==
  /\ reply # NoReply
  /\ analysis = NoAnalysis
  /\ analysis' = analyzeURL(url, reply)
  /\ tickLog' = NoTick
  /\ UNCHANGED scannerState
  /\ UNCHANGED << isScanning, loading, result, history, appError, manualUrl, analysing,
                  decoding, storage, submits, safeReplied, reply, now, boot >>

Next == NextScanner \/ NextApp

\* The whole program.
Spec == Init /\ [][Next]_vars

\* The Scanner sessions, with the App as far as the Scanner drives it; the
\* Scanner never reads the history, which starts empty here.
InitScanner == Init /\ history = << >>
SpecScanner == InitScanner /\ [][NextScanner]_vars
SpecWatched == InitScanner /\ [][NextWatched]_vars
SpecReopen == InitScanner /\ [][NextReopen]_vars

\* The App's submissions, classification calls and history.
SpecApp == Init /\ [][NextApp]_vars

\* The App from its first render on: the saved item is in the storage, the
\* history state is empty, no effect has run.
InitStart ==
  /\ InitFields
  /\ boot = [phase |-> "render", queued |-> << >>]
  /\ history = << >>
  /\ safeReplied = {}
  /\ reply = NoReply
  /\ storage \in SavedItems
NextStart == mountEffects \/ rerender \/ NextApp
SpecStart == InitStart /\ [][NextStart]_vars

\* analyzeURL alone: the reply is drawn from ClassifyReplies, the call settles.
InitClassify == InitState /\ history = << >> /\ reply \in ClassifyReplies
NextClassify == \E url \in ManualTexts : classify(url)
SpecClassify == InitClassify /\ [][NextClassify]_vars

\* ------------------------------------------------------------ properties
Settled == analysis # NoAnalysis

\* The reply is an object whose risk label is a string.
LabelledReply == reply.call = "ok" /\ reply.text = "object" /\ reply.data.risk \notin { Missing, NonString }

\* C1: in every scanning session onScan is invoked at most once.
C1_AtMostOneOnScan == \A s \in Sessions : Len(onScanCalls[s]) <= 1

\* A session that decoded, latched and has delivered its payload.
C1_Delivered == \E s \in Sessions : hasTriggered[s] /\ Len(onScanCalls[s]) = 1

\* C2: when the service call itself fails, analyzeURL does not reject; it
\* settles with risk Suspicious, confidence 0.5 and a non-empty reasons list,
\* and handleScan does not take its error branch.
C2_FailureAbsorbed ==
  (Settled /\ reply.call = "fail") =>
    /\ ~analysis.rejected
    /\ analysis.value.risk = "Suspicious"
    /\ analysis.value.confidence = 50
    /\ analysis.value.reasons # << >>

\* C3: a reply whose risk label is missing or is no spelling of Safe,
\* Suspicious or Phishing gives a result whose risk is Suspicious.
C3_UnrecognizedIsSuspicious ==
  (Settled /\ reply.call = "ok" /\ reply.text = "object"
     /\ reply.data.risk \notin (CaseVariants(sSafe) \cup CaseVariants(sSuspicious)
                                  \cup CaseVariants(sPhishing))) =>
    (~analysis.rejected /\ analysis.value.risk = "Suspicious")

\* C4: every spelling of safe, suspicious and phishing in upper and lower
\* case letters gives Safe, Suspicious and Phishing respectively.
C4_CaseInsensitive ==
  (Settled /\ LabelledReply) =>
    /\ reply.data.risk \in CaseVariants(sSafe) => analysis.value.risk = "Safe"
    /\ reply.data.risk \in CaseVariants(sSuspicious) => analysis.value.risk = "Suspicious"
    /\ reply.data.risk \in CaseVariants(sPhishing) => analysis.value.risk = "Phishing"

\* The label SAFE was mapped to Safe.
C4_UpperCaseMapped ==
  /\ Settled /\ LabelledReply
  /\ reply.data.risk = << "S","A","F","E" >>
  /\ analysis.value.risk = "Safe"

\* Every result that is displayed, held in the history or stored.
Results ==
  Range(history) \cup Range(storage.list) \cup (IF result = NoResult THEN {} ELSE { result })

C6_ThrottleRespected ==
  (tickLog.phase = "start" /\ tickLog.gap < ThrottleIntervalMs) =>
    (tickLog.native = "none" /\ ~tickLog.sw)

\* C7: within a session no decode attempt begins while an earlier one,
\* an awaited detector call included, is unfinished.
C7_NoOverlap == \A s \in Sessions : detecting[s] <= 1 /\ ~overlap[s]

\* A detector call is in flight in a session in which a decode has finished.
C7_SecondDecode == \E s \in Sessions : decoded[s] /\ detecting[s] = 1

\* C8: once a session has ended, no camera track of it is live.
C8_CameraReleased == \A s \in Sessions : mounted[s] = "unmounted" => cam[s] # "live"

\* C9: after the Scanner is closed or torn down no tick of the session is
\* pending, none is scheduled and none begins.
C9_LoopHalted ==
  \A s \in Sessions :
    mounted[s] = "unmounted" =>
      /\ ~ \E f \in rafQueue : f.sess = s
      /\ ~ (tickLog.sess = s /\ tickLog.phase = "start")

\* C10 as stated, for every tick whose detector call threw: jsQR runs on that
\* same tick, the error state stays unset and the loop goes on.  A tick that
\* resumes after the session was closed finds canvasRef.current null and
\* skips jsQR, so this form fails.
C10_ThrowAlwaysFallsBack ==
  (tickLog.phase = "resume" /\ tickLog.native = "throw") =>
    /\ tickLog.sw
    /\ ~error[tickLog.sess]
    /\ (tickLog.resched \/ hasTriggered[tickLog.sess])

\* C10: in a mounted session, a tick whose detector call threw runs jsQR on
\* that same tick, leaves the error state unset and keeps the loop going
\* (the next tick is scheduled, or the tick itself decoded the code).
C10_ThrowFallsBack ==
  (tickLog.phase = "resume" /\ tickLog.native = "throw" /\ tickLog.live) =>
    /\ tickLog.sw
    /\ ~error[tickLog.sess]
    /\ (tickLog.resched \/ hasTriggered[tickLog.sess])

\* The detector threw in a mounted session and jsQR ran on that tick.
C10_ThrownAndDecoded ==
  tickLog.phase = "resume" /\ tickLog.native = "throw" /\ tickLog.live /\ tickLog.sw

\* C11: a session whose getUserMedia call failed shows the error state while
\* it is mounted, has no tick pending or suspended, and has latched, queued
\* and delivered no success; a tick that ran jsQR and found no usable code
\* leaves the error state unset and has the next tick scheduled.
C11_AcquisitionFailureTerminal ==
  /\ \A s \in Sessions :
       cam[s] = "denied" =>
         /\ mounted[s] = "mounted" => error[s]
         /\ ~ \E f \in rafQueue : f.sess = s
         /\ detecting[s] = 0
         /\ ~hasTriggered[s]
         /\ ~ \E i \in DOMAIN timers : timers[i].sess = s
         /\ onScanCalls[s] = << >>
  /\ (tickLog.sw /\ tickLog.code \in { NoCode, << >> }) =>
       /\ ~error[tickLog.sess]
       /\ tickLog.resched
       /\ \E f \in rafQueue : f.sess = tickLog.sess /\ f.id = requestRef[tickLog.sess]

\* The camera was refused to a mounted session, which shows the error.
C11_DeniedShown ==
  \E s \in Sessions : cam[s] = "denied" /\ mounted[s] = "mounted" /\ error[s]

\* C12: a reply that cannot be decoded as the structured shape (no text, text
\* that is not JSON, JSON that is no object, an object that lacks the risk or
\* the reasons property) makes analyzeURL return the fallback: Suspicious,
\* 0.5, one explanatory string.
C12_UndecodableGivesFallback ==
  (Settled /\ reply.call = "ok"
     /\ (reply.text # "object" \/ reply.data.risk = Missing \/ reply.data.reasons = Missing)) =>
    (~analysis.rejected /\ analysis.value = Fallback)

\* C13: a mounted session that has searched for the timeout without a decode
\* shows a hint in place of its searching prompt, and its loop is still
\* running.
C13_HintAfterTimeout ==
  \A s \in Sessions :
    (Searching(s) /\ cam[s] = "live" /\ elapsed[s] >= HintTimeoutMs) =>
      /\ statusMessage(s) # "Align QR code within the box"
      /\ LoopAlive(s)

\* C14: once a session's latch is set no tick of it is pending and none is
\* suspended on the detector, so no later tick decodes or schedules; a tick
\* that begins with the latch set does nothing.
C14_LatchSuppresses ==
  \A s \in Sessions :
    hasTriggered[s] =>
      /\ ~ \E f \in rafQueue : f.sess = s
      /\ detecting[s] = 0
      /\ (tickLog.sess = s /\ tickLog.phase = "start" /\ tickLog.native = "none" /\ ~tickLog.sw)
           => ~tickLog.resched

\* A latched session whose delivery is still pending after time has passed.
C14_LatchedAndWaiting ==
  \E i \in DOMAIN timers :
    /\ hasTriggered[timers[i].sess]
    /\ timers[i].left < ConfirmDelayMs
    /\ onScanCalls[timers[i].sess] = << >>

\* The scanner under fair scheduling: time passes, and a timer whose delay
\* has run out fires.
SpecScannerLive ==
  /\ InitScanner
  /\ [][NextScanner]_vars
  /\ WF_vars(Advance)
  /\ WF_vars(\E i \in DOMAIN timers : timerFire(i))

\* C15: a session that latched a decoded payload eventually has it passed to
\* onScan; whatever was passed to onScan is that payload, passed once, after
\* the latch was set and the confirmation delay had run out.
C15_DeliveredAfterDelay ==
  /\ [](\A s \in Sessions :
          onScanCalls[s] # << >> =>
            /\ hasTriggered[s]
            /\ sinceLatch[s] >= ConfirmDelayMs
            /\ onScanCalls[s] = << successData[s] >>)
  /\ \A s \in Sessions : hasTriggered[s] ~> (onScanCalls[s] = << successData[s] >>)

\* A payload was delivered once the delay had run out.
C15_DeliveredPayload ==
  \E s \in Sessions :
    /\ onScanCalls[s] = << successData[s] >>
    /\ sinceLatch[s] = ConfirmDelayMs
    /\ successData[s] = << "a" >>

\* C16: every result that is displayed or held in the history list has a
\* risk that is Safe, Suspicious or Phishing.
C16_RiskInEnumeration ==
  \A res \in Range(history) \cup (IF result = NoResult THEN {} ELSE { result }) :
    res.risk \in RiskLevel

\* C17: every result handleScan makes has a confidence between 0 and 1
\* (0 and 100 hundredths).
C17_ConfidenceInRange ==
  \A res \in Range(history) \cup (IF result = NoResult THEN {} ELSE { result }) :
    0 <= res.confidence /\ res.confidence <= 100

\* The label is the word, each letter in upper or in lower case.
SpelledAs(label, word) ==
  /\ Len(label) = Len(word)
  /\ \A i \in DOMAIN word : label[i] = word[i] \/ label[i] = LowerToUpper[word[i]]

\* The reply is an object of the schema's shape (risk, confidence and reasons,
\* nothing else) whose risk is a spelling of Safe, Suspicious or Phishing.
WellFormed(r) ==
  /\ r.call = "ok" /\ r.text = "object"
  /\ r.data.risk # Missing /\ r.data.risk # NonString
  /\ \E word \in { sSafe, sSuspicious, sPhishing } : SpelledAs(r.data.risk, word)
  /\ r.data.reasons # Missing
  /\ r.data.url = Missing

\* The enumeration value a recognized label names.
Named(label) ==
  CASE SpelledAs(label, sSafe) -> "Safe"
    [] SpelledAs(label, sSuspicious) -> "Suspicious"
    [] SpelledAs(label, sPhishing) -> "Phishing"

\* C18: when a classification settles on a well-formed reply with a
\* recognized label, analyzeURL's value has the risk the label names and the
\* reply's confidence and reasons, and handleScan displays a result of these
\* with the analysed URL and puts it first in the history.
C18_ReplyCarried ==
  [][(Len(analysing') < Len(analysing) /\ WellFormed(reply')) =>
       /\ ~analysis'.rejected
       /\ analysis'.value.risk = Named(reply'.data.risk)
       /\ analysis'.value.confidence = reply'.data.confidence
       /\ analysis'.value.reasons = reply'.data.reasons
       /\ \E i \in DOMAIN analysing :
            /\ analysing' = [j \in 1..(Len(analysing) - 1) |->
                                IF j < i THEN analysing[j] ELSE analysing[j + 1]]
            /\ result' = [url |-> analysing[i], risk |-> Named(reply'.data.risk),
                          confidence |-> reply'.data.confidence,
                          reasons |-> reply'.data.reasons,
                          timestamp |-> now]
       /\ history' = << result' >> \o history]_vars

\* The reply PHISHING with confidence 0.92 was settled for "a" and is displayed.
C18_PhishingDisplayed ==
  /\ Settled /\ WellFormed(reply)
  /\ reply.data.risk = << "P","H","I","S","H","I","N","G" >>
  /\ result.url = << "a" >> /\ result.risk = "Phishing"
  /\ result.confidence = 92 /\ result.reasons = Reasons
  /\ history # << >> /\ history[1] = result

\* C19: the history list never holds more than the cap of 10 entries, in
\* memory and as persisted.
C19_HistoryBounded ==
  /\ Len(history) <= HistoryCap
  /\ Len(storage.list) <= HistoryCap

\* One result written by the persist effect and read back by the load effect.
RoundTrip(res) == loadHistory(persist(<< res >>))[1]

\* C20: a result that is displayed or held in the history, serialized into
\* the persisted format and deserialized again, has the same url, risk,
\* confidence, reasons and timestamp.
C20_RoundTrip ==
  \A res \in Range(history) \cup (IF result = NoResult THEN {} ELSE { result }) :
    /\ RoundTrip(res).url = res.url
    /\ RoundTrip(res).risk = res.risk
    /\ RoundTrip(res).confidence = res.confidence
    /\ RoundTrip(res).reasons = res.reasons
    /\ RoundTrip(res).timestamp = res.timestamp

\* C21: when the decode of an uploaded image that shows no code settles, the
\* error shown is the no-readable-pattern message, not the message of a file
\* processing failure, the loading flag is cleared and no classification
\* request is made.
C21_NoCodeReported ==
  [][\A i \in DOMAIN decoding :
       (decoding' = Remove(decoding, i) /\ decoding[i].polarity = "none") =>
         /\ appError' = "no pattern"
         /\ appError' # "file failed"
         /\ ~loading'
         /\ analysing' = analysing]_vars

\* An upload without a code has been reported and nothing is being classified.
C21_NoPatternShown ==
  /\ appError = "no pattern"
  /\ ~loading
  /\ analysing = << >>
  /\ decoding = << >>

\* C22: every string analyzeURL is invoked with is non-empty.
C22_NonEmptySubmitted == \A i \in DOMAIN analysing : analysing[i] # << >>

\* C23: onScan is never invoked for a session whose Scanner has been closed.
C23_NoDeliveryAfterClose ==
  [][\A s \in Sessions :
       mounted[s] = "unmounted" => onScanCalls'[s] = onScanCalls[s]]_vars

\* C24 as stated, for every tick: a detector result is handed on first and
\* jsQR is skipped; without a detector or without a result jsQR runs on that
\* tick.  A tick that resumes after the session was closed has no canvas and
\* skips jsQR, so this form fails.
C24_NativeFirstAlways ==
  /\ (tickLog.phase = "resume" /\ tickLog.native = "found") =>
       /\ successData[tickLog.sess] = tickLog.barcodes[1]
       /\ ~tickLog.sw
  /\ (tickLog.phase = "resume" /\ tickLog.native = "empty") => tickLog.sw
  /\ (tickLog.phase = "start" /\ tickLog.frame /\ ~hasDetector) => tickLog.sw

\* C24: on a tick whose detector call returned results the payload latched by
\* handleSuccess is the first result's raw value and jsQR is not run; in a
\* mounted session jsQR runs on the same tick when the detector returned no
\* result, and on every tick with a ready frame when there is no detector.
C24_NativeFirst ==
  /\ (tickLog.phase = "resume" /\ tickLog.native = "found") =>
       /\ successData[tickLog.sess] = tickLog.barcodes[1]
       /\ ~tickLog.sw
  /\ (tickLog.phase = "resume" /\ tickLog.native = "empty" /\ tickLog.live) => tickLog.sw
  /\ (tickLog.phase = "start" /\ tickLog.frame /\ ~hasDetector) => tickLog.sw

\* The detector returned two results and the first one was latched.
C24_FirstOfTwo ==
  /\ tickLog.phase = "resume" /\ tickLog.native = "found"
  /\ Len(tickLog.barcodes) = 2
  /\ tickLog.barcodes[1] # tickLog.barcodes[2]
  /\ successData[tickLog.sess] = tickLog.barcodes[1]

\* A sampling loop of the session is running: a frame of it is requested or
\* a tick of it is suspended on the detector.
Looping(s) == detecting[s] > 0 \/ \E f \in rafQueue : f.sess = s

\* C25: at most one camera stream is live and at most one sampling loop is
\* running at any time.
C25_OneSessionActive ==
  /\ Cardinality({ s \in Sessions : cam[s] = "live" }) <= 1
  /\ Cardinality({ s \in Sessions : Looping(s) }) <= 1

\* The App under fair scheduling: a decode or a classification that can
\* settle does settle.
SpecAppLive ==
  /\ Init
  /\ [][NextApp]_vars
  /\ WF_vars(\E i \in DOMAIN decoding : handleFileUploadResume(i))
  /\ WF_vars(\E i \in DOMAIN analysing, r \in Replies : handleScanResume(i, r))

\* C26: every decode of an uploaded file eventually settles, and the loading
\* flag that handleFileUpload set is eventually cleared.
C26_UploadCompletes ==
  (decoding # << >>) ~> (decoding = << >> /\ ~loading)

\* The persisted entry is the history entry: same url, confidence, reasons
\* and timestamp, and the same risk if the risk is an enumeration value.
SameEntry(stored, held) ==
  /\ stored.url = held.url
  /\ stored.confidence = held.confidence
  /\ stored.reasons = held.reasons
  /\ stored.timestamp = held.timestamp
  /\ held.risk \in RiskLevel => stored.risk = held.risk

\* C27: the history is newest first; a classification that completes puts
\* exactly one new result, the one it displays, before the entries there were,
\* which stay as they are; nothing else adds entries; the persisted list is
\* the first entries of the history, up to the cap, in the same order.
C27_MostRecentFirst ==
  /\ [](/\ \A i, j \in DOMAIN history :
              i < j => history[i].timestamp >= history[j].timestamp
        /\ Len(storage.list) = Min(Len(history), HistoryCap)
        /\ \A i \in DOMAIN storage.list : SameEntry(storage.list[i], history[i]))
  /\ [][/\ (Len(analysing') < Len(analysing) /\ ~analysis'.rejected) =>
             history' = << result' >> \o history
        /\ history' # history =>
             \/ history' = << >>
             \/ Len(analysing') < Len(analysing) /\ Tail(history') = history]_vars

\* The history holds one entry more than the cap, the newest first, and the
\* persisted list holds the cap.
C27_NewestKept ==
  /\ Len(history) = HistoryCap + 1
  /\ Len(storage.list) = HistoryCap
  /\ history[1].timestamp > history[2].timestamp
  /\ storage.list[1].timestamp = history[1].timestamp

\* C28: a tick that runs jsQR on a frame showing a QR code decodes it, whether
\* the code is in normal or in inverted polarity.
C28_BothPolarities ==
  (tickLog.sw /\ tickLog.shown \in { "normal", "inverted" }) => tickLog.code # NoCode

\* C29: at most one classification request is in flight, the loading flag is
\* set while one is in flight and only while a submission is being handled,
\* and the requests finish in the order in which they were started.
C29_OneInFlight ==
  /\ [](/\ Len(analysing) <= 1
        /\ analysing # << >> => loading
        /\ loading => (analysing # << >> \/ decoding # << >>))
  /\ [][Len(analysing') < Len(analysing) => analysing' = Tail(analysing)]_vars

\* Every entry of the list before is at its place in the list after.
Kept(before, after) ==
  \A i \in DOMAIN before : i \in DOMAIN after /\ after[i] = before[i]

\* C30: no step of the application start, and no later step that leaves the
\* history as it is, removes an entry from the stored list.
C30_StoredKept ==
  [][(~Started \/ history' = history) => Kept(storage.list, storage'.list)]_vars

====
